---- MODULE Spec2Model ----
(***************************************************************************)
(* Sparta Fitness Dashboard (src/app.py): a Streamlit script that is       *)
(* re-executed on every interaction.  Each run checks the password flag,   *)
(* reads the whole sheet, normalizes it, renders aggregates and charts,    *)
(* and finally handles the "Submit Entry" / "Delete Last Entry" buttons by *)
(* writing the whole table back.                                           *)
(*                                                                         *)
(* Cells of the sheet are untyped: every cell is modelled as a string, the *)
(* missing cell (pandas NaN) as the token NaN.  The conversions            *)
(* (str.strip, to_datetime, to_numeric, the truthy-token test, strftime)   *)
(* are tables over the strings that occur in the model.                    *)
(*                                                                         *)
(* One column of each kind is modelled: Pullups stands for the counted     *)
(* exercises (Pullups, Pushups, Squats, Burpees), Abs for the check boxes  *)
(* (Abs, Weights, Stretched), Weight for the body metrics (Weight,         *)
(* Fat_Pct, Waist_cm); the code treats the columns of a kind alike.        *)
(***************************************************************************)
EXTENDS Integers, Sequences, FiniteSets, TLC

\* ------------------------------------------------------------------------
\* State
\* ------------------------------------------------------------------------

VARIABLES
  store,            \* the sheet: its header cells and its rows
  auth_secret,      \* st.secrets: TRUE when it has the "auth" section
  sessions,         \* the browser sessions that use the app
  password_correct, \* per session: st.session_state["password_correct"]
  pc,               \* per session: "idle", or where its running script is
  rerun,            \* per session: the run was started by st.rerun()
  df_raw,           \* per session: df_raw of the running script
  read_snap,        \* per session: the sheet as it was when the script read it
  out,              \* what the last run took in and showed, until the next starts
  last_write,       \* the last conn.update: who, from what, and the sheet before
  round_trip,       \* an append and the delete that followed it
  io                \* the access to the sheet the last step made

vars == <<store, auth_secret, sessions, password_correct, pc, rerun, df_raw,
          read_snap, out, last_write, round_trip, io>>

\* ------------------------------------------------------------------------
\* Bounds of the model
\* ------------------------------------------------------------------------

\* most rows a sheet holds at the start
MaxInitRows == 2

\* "Submit Entry" is not offered once the sheet holds this many rows
MaxRows == 3

\* ------------------------------------------------------------------------
\* Cells, columns, tables
\* ------------------------------------------------------------------------

\* a missing cell (pandas NaN)
NaN == "NaN"

\* the result of a failed date parse (pandas NaT)
NaT == -1

\* the columns of the form entry (app.py 220-225), one per kind
AllCols == {"Date", "Pullups", "Abs", "Cardio Type", "Cardio Min/Reps", "Weight", "Comments"}

\* the columns whose missing cells are filled with "N/A" on load (app.py 44)
TextCols == {"Cardio Type", "Comments", "Weight Band"}

\* the columns converted with to_numeric (app.py 62)
num_cols == {"Pullups", "Cardio Min/Reps", "Weight"}

\* the columns converted with the truthy-token test (app.py 68)
bool_cols == {"Abs"}

\* the relative windows of the "Time View" radio, in days (app.py 129-134)
LastWeekDays == 7
LastMonthDays == 30
LastYearDays == 365

\* str.strip() on the strings of the model
StrStrip(s) ==
  CASE s = " 2023-01-01 " -> "2023-01-01"
    [] s = "   " -> ""
    [] s = "Comments " -> "Comments"
    [] OTHER -> s

\* astype(str) on a cell: the missing cell becomes the text "nan"
AsStr(c) == IF c = NaN THEN "nan" ELSE c

\* pd.to_datetime(text, errors='coerce') as a day number, 2023-01-01 = day 0
ToDatetime(s) ==
  CASE s = "2023-01-01" -> 0
    [] s = "2024-06-01" -> 517
    [] s = "2025-01-01" -> 731
    [] s = "2025-01-10" -> 740
    [] OTHER -> NaT

\* f_date.strftime("%Y-%m-%d") of the form's date
Strftime(d) ==
  CASE d = 0 -> "2023-01-01"
    [] d = 517 -> "2024-06-01"
    [] d = 731 -> "2025-01-01"
    [] d = 740 -> "2025-01-10"

\* pd.to_numeric(cell, errors='coerce').fillna(0)
ToNumeric(c) ==
  CASE c = "0" -> 0
    [] c = "3" -> 3
    [] c = "5" -> 5
    [] c = "7" -> 7
    [] c = "10" -> 10
    [] c = "15" -> 15
    [] c = "20" -> 20
    [] c = "70" -> 70
    [] c = "72" -> 72
    [] OTHER -> 0

\* str(number) of a form number written to a cell
NumStr(n) ==
  CASE n = 0 -> "0"
    [] n = 5 -> "5"
    [] n = 20 -> "20"
    [] n = 70 -> "70"

\* str.lower() on the strings of the model
StrLower(s) ==
  CASE s = "TRUE" -> "true"
    [] s = "True" -> "true"
    [] s = "Yes" -> "yes"
    [] s = "False" -> "false"
    [] OTHER -> s

\* astype(str).str.lower().isin([...]) (app.py 71)
IsTruthy(c) == StrLower(AsStr(c)) \in {"true", "1", "1.0", "yes", "y", "checked"}

\* a row of the sheet: a cell for every column (NaN where the sheet has none)
Row(d, p, a, ct, cm, w, c) ==
  [col \in AllCols |->
    CASE col = "Date" -> d
      [] col = "Pullups" -> p
      [] col = "Abs" -> a
      [] col = "Cardio Type" -> ct
      [] col = "Cardio Min/Reps" -> cm
      [] col = "Weight" -> w
      [] col = "Comments" -> c]

\* pd.DataFrame(): no columns, no rows
EmptyDF == [cols |-> {}, rows |-> <<>>]

\* DataFrame.empty: an axis of length 0
IsEmpty(t) == t.cols = {} \/ t.rows = <<>>

\* df[col]: the cells of one column, in row order
Column(rows, col) == [i \in 1..Len(rows) |-> rows[i][col]]

\* Series.sum()
RECURSIVE SumOf(_)
SumOf(series) ==
  IF series = <<>> THEN 0 ELSE Head(series) + SumOf(Tail(series))

\* the set of the elements of a sequence
Range(s) == {s[i] : i \in 1..Len(s)}

\* ------------------------------------------------------------------------
\* Load (app.py 40-52)
\* ------------------------------------------------------------------------

\* fillna("N/A").astype(str) on the text columns the sheet has under their
\* exact name (app.py 44-46)
FillText(t, r) ==
  [col \in AllCols |->
    IF col \in TextCols /\ col \in t.cols
    THEN (IF r[col] = NaN THEN "N/A" ELSE AsStr(r[col]))
    ELSE r[col]]

\* conn.read and the cleaning of df_raw (app.py 41-49)
LoadRaw(t) ==
  LET filled == [i \in 1..Len(t.rows) |-> FillText(t, t.rows[i])]
      cols == {StrStrip(h) : h \in t.cols}
      NotBlank(r) == \E col \in cols : r[col] # NaN
  IN [cols |-> cols, rows |-> SelectSeq(filled, NotBlank)]

\* ------------------------------------------------------------------------
\* Data processing (app.py 55-71)
\* ------------------------------------------------------------------------

\* pd.to_datetime(df["Date"].astype(str).str.strip(), errors='coerce')
ParseDate(c) == ToDatetime(StrStrip(AsStr(c)))

\* one row of df: the parsed date, Date_Only, the numeric and boolean
\* conversions of the columns that are present (app.py 57-71)
ConvertRow(cols, r) ==
  [col \in AllCols \cup {"Date_Only"} |->
    CASE col = "Date" -> ParseDate(r["Date"])
      [] col = "Date_Only" -> ParseDate(r["Date"])
      [] col \in num_cols -> (IF col \in cols THEN ToNumeric(r[col]) ELSE 0)
      [] col \in bool_cols -> (IF col \in cols THEN IsTruthy(r[col]) ELSE FALSE)
      [] OTHER -> r[col]]

\* df = df.dropna(subset=["Date"]) (app.py 58)
HasDate(r) == r["Date"] # NaT

\* Normalize without the dropna on Date: rows without a parsed date stay
Normalize_KeepNaT(raw) ==
  [i \in 1..Len(raw.rows) |-> ConvertRow(raw.cols, raw.rows[i])]

\* df: the rows of df_raw converted, the rows without a parsed date dropped
Normalize(raw) ==
  LET conv == [i \in 1..Len(raw.rows) |-> ConvertRow(raw.cols, raw.rows[i])]
  IN SelectSeq(conv, HasDate)

\* ------------------------------------------------------------------------
\* Aggregates and views (app.py 73-185, 242-243)
\* ------------------------------------------------------------------------

\* the rows df.sort_values("Date", ascending=False).iloc[0] can pick: a row
\* of the greatest date (the order among equal dates is the sort's choice)
LatestCandidates(df) ==
  {i \in 1..Len(df) : \A j \in 1..Len(df) : df[j]["Date"] <= df[i]["Date"]}

\* the banner of the latest entry (app.py 74-79); a NaN comment is truthy
Banner(df, k) ==
  LET latest_comment == df[k]["Comments"]
  IN [shown |-> latest_comment # "" /\ latest_comment # "N/A",
      date |-> df[k]["Date_Only"],
      comment |-> AsStr(latest_comment)]

NoBanner == [shown |-> FALSE, date |-> NaT, comment |-> ""]

\* get_sum (app.py 86)
get_sum(df, cols, col) ==
  IF col \in cols THEN SumOf(Column(df, col)) ELSE 0

\* get_count (app.py 87)
get_count(df, cols, col) ==
  IF col \in cols THEN Len(SelectSeq(df, LAMBDA r : r[col] = TRUE)) ELSE 0

\* get_cardio_sessions (app.py 90-93)
get_cardio_sessions(df, cols) ==
  IF "Cardio Type" \in cols
  THEN Len(SelectSeq(df, LAMBDA r : r["Cardio Type"] # "None"))
  ELSE 0

\* the lifetime totals (app.py 95-108)
Lifetime(df, cols) ==
  [shown |-> TRUE,
   pullups |-> get_sum(df, cols, "Pullups"),
   abs |-> get_count(df, cols, "Abs"),
   cardio_sessions |-> get_cardio_sessions(df, cols),
   cardio_min |-> get_sum(df, cols, "Cardio Min/Reps")]

NoLifetime ==
  [shown |-> FALSE, pullups |-> 0, abs |-> 0, cardio_sessions |-> 0, cardio_min |-> 0]

\* the options of the "Time View" radio (app.py 117)
ViewOpts == {"Full History", "Last Year", "Last Month", "Last Week"}

\* cardio_options (app.py 119), as a set
cardio_options(df) ==
  {"All"} \cup ({r["Cardio Type"] : r \in Range(df)} \ {"N/A", "0", "0.0", "None"})

\* the explicit range filter (app.py 126)
RangeFilter(df, sel_range) ==
  SelectSeq(df, LAMBDA r : r["Date_Only"] >= sel_range[1] /\ r["Date_Only"] <= sel_range[2])

\* the category filter (app.py 136-138)
CategoryFilter(chart_df, selected_type) ==
  IF selected_type # "All"
  THEN SelectSeq(chart_df, LAMBDA r : r["Cardio Type"] = selected_type)
  ELSE chart_df

\* the period totals (app.py 144-146)
Period(chart_df) == [shown |-> TRUE, pullups |-> SumOf(Column(chart_df, "Pullups"))]

NoPeriod == [shown |-> FALSE, pullups |-> 0]

\* the activity totals (app.py 149-151)
Activity(activity_df) ==
  [shown |-> TRUE,
   cardio_val |-> SumOf(Column(activity_df, "Cardio Min/Reps")),
   cardio_sessions |-> Len(SelectSeq(activity_df, LAMBDA r : r["Cardio Type"] # "None"))]

NoActivity == [shown |-> FALSE, cardio_val |-> 0, cardio_sessions |-> 0]

\* the points of the weight trend chart (app.py 166); no rows, no chart
TrendData(chart_df) == SelectSeq(chart_df, LAMBDA r : r["Weight"] > 0)

\* activity_df.sort_values("Date_Only", ascending=False) (app.py 243)
RECURSIVE SortByDateDesc(_)
SortByDateDesc(s) ==
  IF s = <<>> THEN <<>>
  ELSE LET i == CHOOSE k \in 1..Len(s) :
                  /\ \A j \in 1..Len(s) : s[j]["Date_Only"] <= s[k]["Date_Only"]
                  /\ \A j \in 1..(k - 1) : s[j]["Date_Only"] < s[k]["Date_Only"]
           rest == [j \in 1..(Len(s) - 1) |-> IF j < i THEN s[j] ELSE s[j + 1]]
       IN <<s[i]>> \o SortByDateDesc(rest)

\* ------------------------------------------------------------------------
\* One run of the script below the password gate (app.py 55-243)
\* ------------------------------------------------------------------------

\* the exception that ends the run, "" when it reaches the form; df is the
\* processed table when there is one.  df,
\* chart_df, activity_df and selected_type are bound only inside
\* "if not df_raw.empty"; timedelta is not imported (app.py 4).
ScriptError(raw, df, view_opt, sel_range) ==
  IF IsEmpty(raw) THEN "NameError: chart_df"                        \* 162
  ELSE IF "Date" \notin raw.cols THEN "KeyError: Date"               \* 57
  ELSE IF df = <<>> THEN "IndexError: iloc[0]"                       \* 74
  ELSE IF "Comments" \notin raw.cols THEN "KeyError: Comments"       \* 76
  ELSE IF "Cardio Type" \notin raw.cols THEN "KeyError: Cardio Type" \* 119
  ELSE IF view_opt # "Full History" THEN "NameError: timedelta"      \* 130-134
  ELSE IF "Pullups" \notin raw.cols THEN "KeyError: Pullups"         \* 144
  ELSE IF "Cardio Min/Reps" \notin raw.cols THEN "KeyError: Cardio Min/Reps" \* 149
  ELSE IF RangeFilter(df, sel_range) # <<>> /\ "Weight" \notin raw.cols
       THEN "KeyError: Weight"                                       \* 166
  ELSE ""

\* what the run computes and shows before it ends, given the widget values
RunScript(raw, in) ==
  LET hasDf == ~IsEmpty(raw) /\ "Date" \in raw.cols
      df == IF hasDf THEN Normalize(raw) ELSE <<>>
      err == ScriptError(raw, df, in.view_opt, in.sel_range)
      top == hasDf /\ df # <<>> /\ "Comments" \in raw.cols
      filtered == top /\ "Cardio Type" \in raw.cols /\ in.view_opt = "Full History"
      period == filtered /\ "Pullups" \in raw.cols
      totals == period /\ "Cardio Min/Reps" \in raw.cols
      chart_df == IF filtered THEN RangeFilter(df, in.sel_range) ELSE <<>>
      activity_df == IF filtered THEN CategoryFilter(chart_df, in.selected_type) ELSE <<>>
  IN [err |-> err,
      df |-> df,
      banner |-> IF top THEN Banner(df, in.latest) ELSE NoBanner,
      lifetime |-> IF top THEN Lifetime(df, raw.cols) ELSE NoLifetime,
      chart_df |-> chart_df,
      activity_df |-> activity_df,
      period |-> IF period THEN Period(chart_df) ELSE NoPeriod,
      activity |-> IF totals THEN Activity(activity_df) ELSE NoActivity,
      w_data |-> IF err = "" THEN TrendData(chart_df) ELSE <<>>]

\* ------------------------------------------------------------------------
\* The mutation path (app.py 219-239)
\* ------------------------------------------------------------------------

\* str(bool) of a check box
BoolStr(b) == IF b THEN "True" ELSE "False"

\* new_data (app.py 220-225)
NewData(e) ==
  Row(Strftime(e.f_date), NumStr(e.f_pull), BoolStr(e.f_abs), e.f_ctype,
      NumStr(e.f_cmin), NumStr(e.f_wgt), e.f_comm)

\* SubmitTable on a fresh read of the sheet instead of the run's own df_raw
SubmitTable_Reread(raw, e) ==
  [cols |-> LoadRaw(store).cols \cup AllCols,
   rows |-> LoadRaw(store).rows \o <<NewData(e)>>]

\* updated_df = pd.concat([df_raw, new_data], ignore_index=True) (app.py 226)
SubmitTable(raw, e) ==
  [cols |-> raw.cols \cup AllCols, rows |-> raw.rows \o <<NewData(e)>>]

\* DeleteTable by date: drops the first row of the greatest parsed date
DeleteTable_Latest(raw) ==
  LET n == Len(raw.rows)
      k == CHOOSE i \in 1..n :
             /\ \A j \in 1..n : ParseDate(raw.rows[j]["Date"]) <= ParseDate(raw.rows[i]["Date"])
             /\ \A j \in 1..(i - 1) : ParseDate(raw.rows[j]["Date"]) < ParseDate(raw.rows[i]["Date"])
  IN [cols |-> raw.cols,
      rows |-> [j \in 1..(n - 1) |-> IF j < k THEN raw.rows[j] ELSE raw.rows[j + 1]]]

\* updated_df = df_raw.iloc[:-1] (app.py 236)
DeleteTable(raw) ==
  [cols |-> raw.cols, rows |-> SubSeq(raw.rows, 1, Len(raw.rows) - 1)]

\* ------------------------------------------------------------------------
\* Initial states
\* ------------------------------------------------------------------------

Sessions == {1, 2}

\* st.secrets["auth"]["password"]
Secret == "sparta"

\* what a user may type into the password box
Typed == {"sparta", "guess"}

\* date.today() (app.py 128, 196)
Todays == {740}

\* the rows a sheet starts from: clean, blank cells, unparsable and padded
\* dates, a non-numeric count, the "None" type with minutes, a blank row
SheetRows ==
  { Row("2024-06-01", "5", "TRUE", "Run", "20", "70", "good"),
    Row("2025-01-01", "7", NaN, NaN, "10", NaN, NaN),
    Row("bad", "3", "Yes", "Run", "20", "72", "lost"),
    Row(" 2023-01-01 ", "abc", "FALSE", "None", "15", "72", "N/A"),
    Row("   ", "3", NaN, "Walk", "10", "70", NaN),
    Row(NaN, NaN, NaN, NaN, NaN, NaN, NaN) }

\* the header rows a sheet starts from
SheetHeaders ==
  { AllCols,
    (AllCols \ {"Comments"}) \cup {"Comments "},
    AllCols \ {"Weight"},
    {"Date", "Pullups"} }

\* a row as the sheet holds it: no cell where the sheet has no column
Mask(hdr, r) ==
  [col \in AllCols |-> IF col \in {StrStrip(h) : h \in hdr} THEN r[col] ELSE NaN]

\* the sheets of up to n rows under header hdr
RECURSIVE SheetsUpTo(_, _)
SheetsUpTo(hdr, n) ==
  IF n = 0 THEN {<<>>}
  ELSE LET shorter == SheetsUpTo(hdr, n - 1)
       IN shorter \cup {Append(t, Mask(hdr, r)) : t \in shorter, r \in SheetRows}

\* what the form can submit: today or an earlier date
FormEntries ==
  { [f_date |-> 740, f_pull |-> 5, f_abs |-> TRUE, f_ctype |-> "Run",
     f_cmin |-> 20, f_wgt |-> 70, f_comm |-> "hi"],
    [f_date |-> 0, f_pull |-> 0, f_abs |-> FALSE, f_ctype |-> "None",
     f_cmin |-> 0, f_wgt |-> 0, f_comm |-> ""] }

NoEntry ==
  [f_date |-> 740, f_pull |-> 0, f_abs |-> FALSE, f_ctype |-> "None",
   f_cmin |-> 0, f_wgt |-> 0, f_comm |-> ""]

NoRow == Row(NaN, NaN, NaN, NaN, NaN, NaN, NaN)

\* the widget values of a run that starts no mutation and reaches no widget
NoInput ==
  [button |-> "none", view_opt |-> "Full History", selected_type |-> "All",
   sel_range |-> <<0, 0>>, today |-> 740, entry |-> NoEntry, latest |-> 0]

NoOut ==
  [sess |-> 0, in |-> NoInput, raw |-> EmptyDF, wrote |-> FALSE, log_shown |-> FALSE,
   log |-> <<>>, view |-> RunScript(EmptyDF, NoInput)]

NoWrite ==
  [op |-> "none", sess |-> 0, snap |-> EmptyDF, raw |-> EmptyDF, row |-> NoRow,
   before |-> EmptyDF]

TypeOK ==
  /\ store.cols \subseteq AllCols \cup {"Comments "}
  /\ Len(store.rows) <= MaxRows
  /\ auth_secret \in BOOLEAN
  /\ sessions \subseteq Sessions
  /\ password_correct \in [Sessions -> {"unset", "false", "true"}]
  /\ pc \in [Sessions -> {"idle", "load", "process"}]
  /\ rerun \in [Sessions -> BOOLEAN]
  /\ io.op \in {"none", "read", "write"}

InitLocals ==
  /\ password_correct = [s \in Sessions |-> "unset"]
  /\ pc = [s \in Sessions |-> "idle"]
  /\ rerun = [s \in Sessions |-> FALSE]
  /\ df_raw = [s \in Sessions |-> EmptyDF]
  /\ read_snap = [s \in Sessions |-> EmptyDF]
  /\ out = NoOut
  /\ last_write = NoWrite
  /\ round_trip = [phase |-> "none", T |-> EmptyDF]
  /\ io = [sess |-> 0, op |-> "none"]

\* one session; the sheet is any sheet of up to MaxInitRows rows
Init ==
  /\ \E hdr \in SheetHeaders : \E rows \in SheetsUpTo(hdr, MaxInitRows) :
       store = [cols |-> hdr, rows |-> rows]
  /\ auth_secret \in BOOLEAN
  /\ sessions = {1}
  /\ InitLocals

\* ------------------------------------------------------------------------
\* Actions
\* ------------------------------------------------------------------------

\* check_password that lets a session through unless its flag is False
CheckPassword_Unset(flag) == flag # "false"

\* check_password's verdict on the session flag (app.py 21-30)
CheckPassword(flag) == flag = "true"

\* password_entered: the flag the callback stores (app.py 13-19)
PasswordEntered(has_auth, typed) ==
  IF has_auth /\ typed = Secret THEN "true" ELSE "false"

\* the days of the model's calendar
ModelDays == {0, 517, 731, 740}

\* the values the widgets of one run can have (app.py 117-124, 196-217, 219,
\* 234).  A widget the run does not reach keeps its default; the category
\* and the range are moved only under "Full History" and with no button
\* pressed (a button's handler reads neither).  Unless solo (the only
\* session), the filters stay at their defaults and the form is offered for
\* one row less.
Inputs(raw, is_rerun, solo) ==
  LET df == IF ~IsEmpty(raw) /\ "Date" \in raw.cols THEN Normalize(raw) ELSE <<>>
      days == {r["Date_Only"] : r \in Range(df)}
      slider == {d \in ModelDays : \E a \in days, b \in days : a <= d /\ d <= b}
      abs_min_date == CHOOSE d \in slider : \A x \in slider : d <= x
      abs_max_date == CHOOSE d \in slider : \A x \in slider : x <= d
      reached == df # <<>> /\ "Comments" \in raw.cols /\ "Cardio Type" \in raw.cols
      pressed == IF is_rerun THEN {}
                 ELSE {<<"delete", NoEntry>>} \cup
                      (IF Len(raw.rows) < (IF solo THEN MaxRows ELSE MaxRows - 1)
                       THEN {<<"submit", e>> : e \in FormEntries} ELSE {})
      latest == IF df # <<>> /\ "Comments" \in raw.cols
                THEN LatestCandidates(df) ELSE {0}
      Widgets(b, v, c, lo, hi, t, k) ==
        [button |-> b[1], view_opt |-> v, selected_type |-> c,
         sel_range |-> <<lo, hi>>, today |-> t, entry |-> b[2], latest |-> k]
  IN IF ~reached
     THEN {Widgets(b, "Full History", "All", 0, 0, t, k) :
             b \in pressed \cup {<<"none", NoEntry>>}, t \in Todays, k \in latest}
     ELSE {Widgets(b, v, "All", abs_min_date, abs_max_date, t, k) :
             b \in pressed \cup {<<"none", NoEntry>>},
             v \in (IF solo THEN ViewOpts ELSE {"Full History"}),
             t \in Todays, k \in latest}
          \cup
          {Widgets(<<"none", NoEntry>>, "Full History", c, r[1], r[2], t, k) :
             c \in (IF solo THEN cardio_options(df) ELSE {"All"}),
             r \in (IF solo THEN {x \in slider \X slider : x[1] <= x[2]}
                              ELSE {<<abs_min_date, abs_max_date>>}),
             t \in Todays, k \in latest}

\* the password box is shown and a password is typed into it: the callback
\* runs, then the script (app.py 13-30, 33)
EnterPassword(s) ==
  /\ s \in sessions
  /\ pc[s] = "idle"
  /\ ~CheckPassword(password_correct[s])
  /\ \E typed \in Typed :
       LET flag == PasswordEntered(auth_secret, typed)
       IN /\ password_correct' = [password_correct EXCEPT ![s] = flag]
          /\ pc' = [pc EXCEPT ![s] = IF CheckPassword(flag) THEN "load" ELSE "idle"]
  /\ rerun' = [rerun EXCEPT ![s] = FALSE]
  /\ io' = [sess |-> s, op |-> "none"]
  /\ out' = NoOut
  /\ UNCHANGED <<store, auth_secret, sessions, df_raw, read_snap, last_write,
                 round_trip>>

\* any other interaction (a reload, a widget, a button) starts a run of the
\* script; without the flag the run ends at the password box (app.py 33)
Interact(s) ==
  /\ s \in sessions
  /\ pc[s] = "idle"
  /\ pc' = [pc EXCEPT ![s] = IF CheckPassword(password_correct[s]) THEN "load" ELSE "idle"]
  /\ rerun' = [rerun EXCEPT ![s] = FALSE]
  /\ io' = [sess |-> s, op |-> "none"]
  /\ out' = NoOut
  /\ UNCHANGED <<store, auth_secret, sessions, password_correct, df_raw, read_snap,
                 last_write, round_trip>>

\* conn.read and the cleaning of df_raw; a failed read gives the empty
\* DataFrame (app.py 39-52)
Load(s) ==
  /\ s \in sessions
  /\ pc[s] = "load"
  /\ \E ok \in BOOLEAN :
       df_raw' = [df_raw EXCEPT ![s] = IF ok THEN LoadRaw(store) ELSE EmptyDF]
  /\ read_snap' = [read_snap EXCEPT ![s] = store]
  /\ pc' = [pc EXCEPT ![s] = "process"]
  /\ io' = [sess |-> s, op |-> "read"]
  /\ UNCHANGED <<store, auth_secret, sessions, password_correct, rerun, out,
                 last_write, round_trip>>

\* the rest of the run: processing, the views, then the button that was
\* pressed; a write ends with st.rerun() (app.py 55-243)
Process(s) ==
  /\ s \in sessions
  /\ pc[s] = "process"
  /\ \E in \in Inputs(df_raw[s], rerun[s], sessions = {s}) :
       /\ LET raw == df_raw[s]
              view == RunScript(raw, in)
              submit == view.err = "" /\ in.button = "submit"
              delete == view.err = "" /\ in.button = "delete" /\ ~IsEmpty(raw)
              wrote == submit \/ delete
          IN /\ store' = IF submit THEN SubmitTable(raw, in.entry)
                         ELSE IF delete THEN DeleteTable(raw)
                         ELSE store
             /\ last_write' =
                  IF wrote
                  THEN [op |-> IF submit THEN "append" ELSE "delete",
                        sess |-> s, snap |-> read_snap[s], raw |-> raw,
                        row |-> IF submit THEN NewData(in.entry) ELSE NoRow,
                        before |-> store]
                  ELSE last_write
             /\ round_trip' =
                  IF submit THEN [phase |-> "appended", T |-> read_snap[s]]
                  ELSE IF delete /\ round_trip.phase = "appended"
                       THEN [round_trip EXCEPT !.phase = "round trip"]
                  ELSE IF delete THEN [phase |-> "none", T |-> EmptyDF]
                  ELSE round_trip
             /\ out' = [sess |-> s, in |-> in, raw |-> raw, wrote |-> wrote,
                        log_shown |-> view.err = "" /\ ~wrote,
                        log |-> IF view.err = "" /\ ~wrote
                                THEN SortByDateDesc(view.activity_df) ELSE <<>>,
                        view |-> view]
             /\ pc' = [pc EXCEPT ![s] = IF wrote THEN "load" ELSE "idle"]
             /\ rerun' = [rerun EXCEPT ![s] = wrote]
             /\ io' = [sess |-> s, op |-> IF wrote THEN "write" ELSE "none"]
  /\ df_raw' = [df_raw EXCEPT ![s] = EmptyDF]
  /\ read_snap' = [read_snap EXCEPT ![s] = EmptyDF]
  /\ UNCHANGED <<auth_secret, sessions, password_correct>>

Next ==
  \E s \in Sessions : EnterPassword(s) \/ Interact(s) \/ Load(s) \/ Process(s)

Spec == Init /\ [][Next]_vars

\* two sessions on one sheet with every column, the secret configured; the
\* sheet holds one row, clean or with blank cells
InitConc ==
  /\ \E r \in {Row("2024-06-01", "5", "TRUE", "Run", "20", "70", "good"),
               Row("2025-01-01", "7", NaN, NaN, "10", NaN, NaN)} :
       store = [cols |-> AllCols, rows |-> <<r>>]
  /\ auth_secret = TRUE
  /\ sessions = Sessions
  /\ InitLocals

SpecConc == InitConc /\ [][Next]_vars

\* ------------------------------------------------------------------------
\* Properties
\* ------------------------------------------------------------------------

\* a run has finished and its page is on screen
Ran == out.sess # 0

\* the rows of a raw table whose date cell parses
DatedRows(raw) == SelectSeq(raw.rows, LAMBDA r : ParseDate(r["Date"]) # NaT)

\* C1. Empty-input safety: a run whose loaded table has zero rows, or whose
\* table normalizes to zero rows, finishes without raising, shows zero
\* aggregates and no chart.
C1_EmptyInputSafety ==
  (Ran /\ (IsEmpty(out.raw) \/ DatedRows(out.raw) = <<>>)) =>
    /\ out.view.err = ""
    /\ out.view.lifetime.pullups = 0
    /\ out.view.lifetime.cardio_sessions = 0
    /\ out.view.period.pullups = 0
    /\ out.view.activity.cardio_val = 0
    /\ out.view.w_data = <<>>

\* C2. Append/delete round trip: an append of e to the sheet T followed by
\* "Delete Last Entry" leaves the sheet equal to T, row for row.
C2_AppendDeleteRoundTrip ==
  round_trip.phase = "round trip" => store = round_trip.T

\* C3. Delete targets append order: "Delete Last Entry" on a non-empty raw
\* table writes back that table without its last row, the other rows
\* unchanged and in order, whatever the dates; on an empty raw table it
\* writes nothing.
C3_DeleteDropsLastRow ==
  /\ last_write.op = "delete" =>
       /\ Len(last_write.raw.rows) >= 1
       /\ Len(store.rows) = Len(last_write.raw.rows) - 1
       /\ \A i \in 1..Len(store.rows) : store.rows[i] = last_write.raw.rows[i]
       /\ store.cols = last_write.raw.cols
  /\ (Ran /\ out.in.button = "delete" /\ IsEmpty(out.raw)) =>
       (~out.wrote /\ io.op # "write")

\* C3 witness: a delete removed the last row although an earlier row of the
\* raw table has a later date.
C3_Witness ==
  /\ last_write.op = "delete"
  /\ io.op = "write"
  /\ LET rows == last_write.raw.rows
         last == rows[Len(rows)]
     IN /\ ParseDate(last["Date"]) # NaT
        /\ \E i \in 1..(Len(rows) - 1) :
             ParseDate(rows[i]["Date"]) > ParseDate(last["Date"])
        /\ Len(store.rows) = Len(rows) - 1

\* the days a relative window reaches back
WindowDays(view_opt) ==
  CASE view_opt = "Last Week" -> LastWeekDays
    [] view_opt = "Last Month" -> LastMonthDays
    [] view_opt = "Last Year" -> LastYearDays

\* C4. Window composition: for every window, range and today the chart
\* subset is the normalized rows inside the range and, for a relative
\* window, not older than today minus 7/30/365 days; computing it never
\* raises.
C4_WindowComposition ==
  (Ran /\ out.view.df # <<>> /\ {"Comments", "Cardio Type"} \subseteq out.raw.cols) =>
    /\ out.view.err # "NameError: timedelta"
    /\ out.view.chart_df =
         SelectSeq(out.view.df, LAMBDA r :
           /\ out.in.sel_range[1] <= r["Date_Only"]
           /\ r["Date_Only"] <= out.in.sel_range[2]
           /\ (out.in.view_opt = "Full History"
               \/ r["Date_Only"] >= out.in.today - WindowDays(out.in.view_opt)))

\* a row that is a cardio session: its type is neither "None" nor "N/A"
IsSession(r) == r["Cardio Type"] \notin {"None", "N/A"}

\* C5. Cardio session exclusion: neither the lifetime nor the activity
\* session count counts a row whose cardio type is "None" or "N/A".
C5_SessionsExcludePlaceholder ==
  /\ (Ran /\ out.view.lifetime.shown /\ "Cardio Type" \in out.raw.cols) =>
       out.view.lifetime.cardio_sessions = Len(SelectSeq(out.view.df, IsSession))
  /\ (Ran /\ out.view.activity.shown) =>
       out.view.activity.cardio_sessions = Len(SelectSeq(out.view.activity_df, IsSession))

\* the sum of a numeric column over raw rows, a non-numeric cell counting 0
RawSum(rows, cols, col) ==
  IF col \in cols
  THEN SumOf([i \in 1..Len(rows) |-> ToNumeric(rows[i][col])])
  ELSE 0

\* the raw rows whose date parses into the range
DatedRowsIn(raw, sel_range) ==
  SelectSeq(raw.rows, LAMBDA r :
    /\ ParseDate(r["Date"]) # NaT
    /\ sel_range[1] <= ParseDate(r["Date"])
    /\ ParseDate(r["Date"]) <= sel_range[2])

\* C6. Date-drop law: every retained row has a parsed date, and a row whose
\* date cell is empty, whitespace or not a date is in no view: the totals
\* are those of the dated rows alone, the chart, the trend, the banner and
\* the log hold dated rows only.  A dated row with a bad number stays, the
\* number read as 0.
C6_DateDropLaw ==
  Ran =>
    LET v == out.view
        dated == DatedRows(out.raw)
    IN /\ \A r \in Range(v.df) \cup Range(v.chart_df) \cup Range(v.activity_df)
                   \cup Range(v.w_data) \cup Range(out.log) : r["Date_Only"] # NaT
       /\ (~IsEmpty(out.raw) /\ "Date" \in out.raw.cols) =>
            /\ Len(v.df) = Len(dated)
            /\ \A i \in 1..Len(v.df) :
                 /\ v.df[i]["Date_Only"] = ParseDate(dated[i]["Date"])
                 /\ \A col \in num_cols \cap out.raw.cols :
                      v.df[i][col] = ToNumeric(dated[i][col])
       /\ v.banner.shown =>
            \E r \in Range(dated) : ParseDate(r["Date"]) = v.banner.date
       /\ v.lifetime.shown =>
            /\ v.lifetime.pullups = RawSum(dated, out.raw.cols, "Pullups")
            /\ v.lifetime.cardio_min = RawSum(dated, out.raw.cols, "Cardio Min/Reps")
            /\ v.lifetime.abs =
                 (IF "Abs" \in out.raw.cols
                  THEN Len(SelectSeq(dated, LAMBDA r : IsTruthy(r["Abs"]))) ELSE 0)
            /\ v.lifetime.cardio_sessions <= Len(dated)
       /\ v.period.shown =>
            v.period.pullups =
              RawSum(DatedRowsIn(out.raw, out.in.sel_range), out.raw.cols, "Pullups")
       /\ v.activity.shown =>
            LET picked == SelectSeq(DatedRowsIn(out.raw, out.in.sel_range), LAMBDA r :
                            out.in.selected_type = "All"
                            \/ r["Cardio Type"] = out.in.selected_type)
            IN /\ v.activity.cardio_sessions <= Len(picked)
               /\ v.activity.cardio_val = RawSum(picked, out.raw.cols, "Cardio Min/Reps")

\* C6 witness: a finished run with every view on screen whose raw table has
\* an undated row with pullups and minutes and a dated row with a bad number.
C6_Witness ==
  /\ Ran /\ out.view.err = "" /\ out.log_shown /\ out.view.lifetime.shown
  /\ \E r \in Range(out.raw.rows) :
       ParseDate(r["Date"]) = NaT /\ ToNumeric(r["Pullups"]) > 0
       /\ ToNumeric(r["Cardio Min/Reps"]) > 0
  /\ \E i \in 1..Len(out.view.df) :
       out.view.df[i]["Pullups"] = 0 /\ DatedRows(out.raw)[i]["Pullups"] = "abc"
  /\ out.view.w_data # <<>>

\* C7. Graceful column absence: with a Date column and any subset of the
\* other columns no aggregate or view raises for the absent column.
C7_GracefulColumnAbsence ==
  (Ran /\ "Date" \in out.raw.cols) =>
    out.view.err \notin {"KeyError: Comments", "KeyError: Cardio Type",
                         "KeyError: Pullups", "KeyError: Cardio Min/Reps",
                         "KeyError: Weight"}

\* C8. The authenticated flag is monotone and gates the sheet: once true it
\* stays true, and a step reads or writes the sheet, or is inside a run that
\* does, only for a session whose flag is true.
C8_AuthMonotoneAndGates ==
  [][ /\ \A s \in Sessions :
           password_correct[s] = "true" => password_correct'[s] = "true"
      /\ \A s \in Sessions : pc'[s] # "idle" => password_correct'[s] = "true"
      /\ io'.op # "none" => password_correct'[io'.sess] = "true"
      /\ store' # store => (io'.op = "write" /\ password_correct[io'.sess] = "true") ]_vars

\* C8 witness: an authenticated session has written to the sheet and has
\* finished a later run with its flag still true.
C8_Witness ==
  /\ password_correct[1] = "true"
  /\ last_write.op # "none" /\ last_write.sess = 1
  /\ Ran /\ ~out.wrote /\ pc[1] = "idle"

\* the table a write computes from the writer's own read of the sheet
OwnTable(w) ==
  LET own == LoadRaw(w.snap)
  IN IF w.op = "append"
     THEN [cols |-> own.cols \cup AllCols, rows |-> Append(own.rows, w.row)]
     ELSE [cols |-> own.cols, rows |-> SubSeq(own.rows, 1, Len(own.rows) - 1)]

\* C9. Last writer wins: every write replaces the whole sheet by the table
\* computed from the writer's own earlier read, whatever was written since,
\* and the writer's run ends without an error.
C9_LastWriterWins ==
  /\ last_write.op # "none" => store = OwnTable(last_write)
  /\ io.op = "write" =>
       (out.sess = io.sess /\ out.wrote /\ out.view.err = "")

\* C9 witness: a write by one session between another session's read and
\* write is lost: the row it added is in neither the sheet nor the last
\* writer's read.
C9_Witness ==
  /\ last_write.op # "none"
  /\ io.op = "write"
  /\ last_write.before # last_write.snap
  /\ \E r \in Range(last_write.before.rows) :
       r \notin Range(last_write.snap.rows) /\ r \notin Range(store.rows)

\* C10. Append never loses stored rows: after a successful "Submit Entry"
\* the sheet holds the rows it held just before that run, in order, then
\* the new entry; a run whose read failed writes nothing.
C10_AppendKeepsRows ==
  /\ last_write.op = "append" =>
       store.rows = Append(last_write.snap.rows, last_write.row)
  /\ (Ran /\ out.in.button = "submit" /\ out.raw = EmptyDF) => ~out.wrote

====
